---- MODULE Spec2Model ----
(***************************************************************************)
(* Hotel Market Value Comparison Tool (src/Hotel_app.py).                  *)
(*                                                                         *)
(* The uploaded workbook is a table of property rows.  The script coerces  *)
(* the numeric columns, drops incomplete rows, maps the hotel class, and   *)
(* then, for every row of the normalised frame, filters the other rows by  *)
(* the comparison mask, picks at most five of them and derives OverPaid.   *)
(*                                                                         *)
(* Every value of a data frame is modelled as a cell:                      *)
(*   kind "num"  : a number, in val                                        *)
(*   kind "text" : a string, in text; pad says it carries surrounding      *)
(*                 whitespace (so str.strip() is not the identity)         *)
(*   kind "nan"  : pandas' missing value                                   *)
(* Money is exact: tax rates are in units of 1/RateScale and OverPaid in   *)
(* units of 1/(2*RateScale), the 2 making the median of two values whole.  *)
(***************************************************************************)
EXTENDS Integers, Sequences, FiniteSets, TLC

VARIABLES uploaded_file, df, pc, i, base, subset, matches, selected, df_out_rows

vars == <<uploaded_file, df, pc, i, base, subset, matches, selected, df_out_rows>>

----------------------------------------------------------------------------
(* Cells *)

Num(v) == [kind |-> "num", val |-> v, text |-> "", pad |-> FALSE]

Text(s) == [kind |-> "text", val |-> 0, text |-> s, pad |-> FALSE]

Padded(s) == [kind |-> "text", val |-> 0, text |-> s, pad |-> TRUE]

NaN == [kind |-> "nan", val |-> 0, text |-> "", pad |-> FALSE]

isna(c) == c.kind = "nan"

----------------------------------------------------------------------------
(* Configuration and lookup tables *)

MV_TOLERANCE == 20

RateScale == 10000

NearestCount == 3

MaxSelected == 5

hotel_class_map ==
  [s \in {"Budget (Low End)", "Economy (Name Brand)", "Midscale", "Upper Midscale",
          "Upscale", "Upper Upscale First Class", "Luxury Class", "Independent Hotel"} |->
     CASE s = "Budget (Low End)" -> 1
       [] s = "Economy (Name Brand)" -> 2
       [] s = "Midscale" -> 3
       [] s = "Upper Midscale" -> 4
       [] s = "Upscale" -> 5
       [] s = "Upper Upscale First Class" -> 6
       [] s = "Luxury Class" -> 7
       [] s = "Independent Hotel" -> 8]

\* str(value).strip(): the text without its surrounding whitespace; a number
\* or a missing value prints as text that is no key of hotel_class_map.
StrStrip(c) ==
  CASE c.kind = "text" -> c.text
    [] c.kind = "num" -> "<digits>"
    [] c.kind = "nan" -> "nan"

map_hotel_class(value) ==
  IF StrStrip(value) \in DOMAIN hotel_class_map
    THEN Num(hotel_class_map[StrStrip(value)])
    ELSE Text("")

state_tax_rates ==
  ("Alabama" :> 39) @@ ("Arkansas" :> 62) @@ ("Arizona" :> 66) @@ ("California" :> 76) @@
  ("Colorado" :> 51) @@ ("Connecticut" :> 214) @@ ("Florida" :> 89) @@ ("Georgia" :> 83) @@
  ("Iowa" :> 157) @@ ("Idaho" :> 69) @@ ("Illinois" :> 210) @@ ("Indiana" :> 85) @@
  ("Kansas" :> 133) @@ ("Kentucky" :> 80) @@ ("Louisiana" :> 0) @@ ("Massachusetts" :> 112) @@
  ("Maryland" :> 109) @@ ("Michigan" :> 154) @@ ("Missouri" :> 97) @@ ("Mississippi" :> 75) @@
  ("Montana" :> 84) @@ ("North Carolina" :> 77) @@ ("Nebraska" :> 173) @@ ("New Jersey" :> 249) @@
  ("New Mexico" :> 80) @@ ("Nevada" :> 60) @@ ("Newyork" :> 172) @@ ("Ohio" :> 157) @@
  ("Oklahoma" :> 90) @@ ("Oregon" :> 97) @@ ("Pennsylvania" :> 158) @@ ("South Carolina" :> 57) @@
  ("Tennessee" :> 71) @@ ("Texas" :> 250) @@ ("Utah" :> 57) @@ ("Virginia" :> 82) @@
  ("Washington" :> 98)

get_state_tax_rate(state) ==
  IF state.kind = "text" /\ ~state.pad /\ state.text \in DOMAIN state_tax_rates
    THEN state_tax_rates[state.text]
    ELSE 0

safe_excel_value(val) == IF isna(val) THEN Text("") ELSE val

\* pd.to_numeric(errors='coerce'): numbers stay, decimal text is parsed,
\* anything else becomes NaN.
DecimalText == ("5" :> 5)

to_numeric(c) ==
  CASE c.kind = "num" -> c
    [] c.kind = "text" /\ ~c.pad /\ c.text \in DOMAIN DecimalText -> Num(DecimalText[c.text])
    [] OTHER -> NaN

----------------------------------------------------------------------------
(* Data-frame helpers *)

\* The rows of frame at the positions in keep, in frame order.
Keep(frame, keep) ==
  LET F[k \in 0..Len(frame)] ==
        IF k = 0 THEN <<>>
        ELSE IF k \in keep THEN Append(F[k-1], frame[k]) ELSE F[k-1]
  IN F[Len(frame)]

Range(f) == {f[x] : x \in DOMAIN f}

Min(a, b) == IF a <= b THEN a ELSE b

head(frame, n) == SubSeq(frame, 1, Min(n, Len(frame)))

index(frame) == {frame[k].index : k \in 1..Len(frame)}

\* DataFrame.drop(labels): the rows whose index label is not in labels.
drop(frame, labels) == Keep(frame, {k \in 1..Len(frame) : frame[k].index \notin labels})

\* frame.sort_values("2024 VPR", ascending=...).head(n).  sort_values uses
\* numpy's default quicksort, which is not a stable sort, so rows with equal
\* VPR may come out in any order: the result is any head of any ordering of
\* the frame by VPR.
sort_values_head(frame, ascending, n) ==
  LET m == Min(n, Len(frame))
      key(k) == IF ascending THEN frame[k].VPR.val ELSE 0 - frame[k].VPR.val
      picks == {q \in [1..m -> 1..Len(frame)] :
                  /\ \A a, b \in 1..m : a < b => q[a] # q[b] /\ key(q[a]) <= key(q[b])
                  /\ \A k \in 1..Len(frame) :
                       k \notin Range(q) => \A a \in 1..m : key(q[a]) <= key(k)}
  IN {[t \in 1..m |-> frame[q[t]]] : q \in picks}

InsertSorted(s, x) ==
  LET p == Cardinality({k \in 1..Len(s) : s[k] <= x})
  IN SubSeq(s, 1, p) \o <<x>> \o SubSeq(s, p + 1, Len(s))

Sorted(v) ==
  LET F[k \in 0..Len(v)] == IF k = 0 THEN <<>> ELSE InsertSorted(F[k-1], v[k])
  IN F[Len(v)]

\* Twice Series.median(): the middle value, or the mean of the two middle ones.
median2(v) ==
  LET s == Sorted(v)
      n == Len(v)
  IN IF n % 2 = 1 THEN 2 * s[(n + 1) \div 2] ELSE s[n \div 2] + s[n \div 2 + 1]

----------------------------------------------------------------------------
(* Normalisation, lines 67-79 *)

\* read_excel gives the rows the labels 0, 1, 2, ...; the three numeric
\* columns are coerced.
read_and_coerce(table) ==
  [k \in 1..Len(table) |->
     [index |-> k - 1,
      Address |-> table[k].Address, State |-> table[k].State,
      County |-> table[k].County, HotelName |-> table[k].HotelName,
      OwnerName |-> table[k].OwnerName,
      Rooms |-> to_numeric(table[k].Rooms),
      MarketValue |-> to_numeric(table[k].MarketValue),
      VPR |-> to_numeric(table[k].VPR),
      HotelClass |-> table[k].HotelClass,
      HotelClassMapped |-> map_hotel_class(table[k].HotelClass)]]

\* dropna on the numeric columns, then on the mapped class.  Neither resets
\* the index, and the mapped class is a rank or "", never NaN.
dropna_numeric(frame) ==
  Keep(frame, {k \in 1..Len(frame) :
                 ~isna(frame[k].Rooms) /\ ~isna(frame[k].MarketValue) /\ ~isna(frame[k].VPR)})

dropna_mapped(frame) ==
  Keep(frame, {k \in 1..Len(frame) : ~isna(frame[k].HotelClassMapped)})

normalized(table) == dropna_mapped(dropna_numeric(read_and_coerce(table)))

\* astype(int) raises ValueError on "".
astype_int_fails(frame) ==
  \E k \in 1..Len(frame) : frame[k].HotelClassMapped.kind # "num"

----------------------------------------------------------------------------
(* One iteration of the comparison loop, lines 94-170 *)

\* The table with one rank on either side only.
allowed_one_step(hotel_class_order) ==
  {hotel_class_order + d : d \in -1..1} \cap 1..8

allowed(hotel_class_order) ==
  CASE hotel_class_order = 1 -> {1, 2, 3}
    [] hotel_class_order = 2 -> {1, 2, 3, 4}
    [] hotel_class_order = 3 -> {2, 3, 4, 5}
    [] hotel_class_order = 4 -> {3, 4, 5, 6}
    [] hotel_class_order = 5 -> {4, 5, 6, 7}
    [] hotel_class_order = 6 -> {5, 6, 7, 8}
    [] hotel_class_order = 7 -> {6, 7, 8}
    [] hotel_class_order = 8 -> {7, 8}
    [] OTHER -> {}

\* The band with its ends left out.
between_exclusive(value, mv) ==
  /\ 100 * value > mv * (100 - MV_TOLERANCE)
  /\ 100 * value < mv * (100 + MV_TOLERANCE)

\* Series.between(mv_min, mv_max), inclusive on both ends, with
\* mv_min = mv * (1 - MV_TOLERANCE) and mv_max = mv * (1 + MV_TOLERANCE);
\* both sides are multiplied by 100 to stay in the integers.
between(value, mv) ==
  /\ 100 * value >= mv * (100 - MV_TOLERANCE)
  /\ 100 * value <= mv * (100 + MV_TOLERANCE)

\* Equality of two cells as pandas compares them: NaN equals nothing.
eq(a, b) == ~isna(a) /\ ~isna(b) /\ a = b

\* The mask with the room count compared by <=.
mask_rooms_le(c, b) ==
  /\ eq(c.State, b.State)
  /\ eq(c.County, b.County)
  /\ c.Rooms.val <= b.Rooms.val
  /\ between(c.MarketValue.val, b.MarketValue.val)
  /\ c.VPR.val < b.VPR.val
  /\ c.HotelClassMapped.val \in allowed(b.HotelClassMapped.val)

mask(c, b) ==
  /\ eq(c.State, b.State)
  /\ eq(c.County, b.County)
  /\ c.Rooms.val < b.Rooms.val
  /\ between(c.MarketValue.val, b.MarketValue.val)
  /\ c.VPR.val < b.VPR.val
  /\ c.HotelClassMapped.val \in allowed(b.HotelClassMapped.val)

\* subset = df[df.index != i]: i is the POSITION of the subject, compared
\* with the index LABELS.
subset_of(frame, pos) == Keep(frame, {k \in 1..Len(frame) : frame[k].index # pos})

matches_of(sub, b) == Keep(sub, {k \in 1..Len(sub) : mask(sub[k], b)})

\* The possible values of selected, lines 123-132: the three lowest-VPR
\* matches, then the lowest-VPR of the rest, then the highest-VPR of what is
\* left, cut to five rows.
selections(m) ==
  IF m = <<>> THEN {<<>>}
  ELSE UNION {UNION {{head(nearest \o least \o top, MaxSelected) :
                        top \in sort_values_head(drop(drop(m, index(nearest)), index(least)),
                                                 FALSE, 1)} :
                     least \in sort_values_head(drop(m, index(nearest)), TRUE, 1)} :
              nearest \in sort_values_head(m, TRUE, NearestCount)}

VPRs(frame) == [k \in 1..Len(frame) |-> frame[k].VPR.val]

\* The amount floored at zero.
overpaid_amount_clamped(mv, rooms, state_rate, vprs) ==
  LET assessed == median2(vprs) * rooms * state_rate
      subject_tax == 2 * mv * state_rate
  IN IF subject_tax - assessed < 0 THEN 0 ELSE subject_tax - assessed

\* Lines 147-151, in units of 1/(2*RateScale): subject_tax - assessed, for
\* the VPRs of selected.head(3).
overpaid_amount(mv, rooms, state_rate, vprs) ==
  LET assessed == median2(vprs) * rooms * state_rate
      subject_tax == 2 * mv * state_rate
  IN subject_tax - assessed

overpaid_of(b, sel) ==
  Num(overpaid_amount(b.MarketValue.val, b.Rooms.val, get_state_tax_rate(b.State),
                      VPRs(head(sel, 3))))

\* The nine match_columns of a frame row, as written to the output.
columns(r) ==
  [Address |-> safe_excel_value(r.Address), State |-> safe_excel_value(r.State),
   County |-> safe_excel_value(r.County), HotelName |-> safe_excel_value(r.HotelName),
   OwnerName |-> safe_excel_value(r.OwnerName), Rooms |-> safe_excel_value(r.Rooms),
   MarketValue |-> safe_excel_value(r.MarketValue), VPR |-> safe_excel_value(r.VPR),
   HotelClass |-> safe_excel_value(r.HotelClass)]

EmptyColumns ==
  [Address |-> Text(""), State |-> Text(""), County |-> Text(""), HotelName |-> Text(""),
   OwnerName |-> Text(""), Rooms |-> Text(""), MarketValue |-> Text(""), VPR |-> Text(""),
   HotelClass |-> Text("")]

\* "Total: {len(matches)} | Selected: {len(selected)}" or "No_Match_Case".
status_of(m, sel) ==
  IF m # <<>> THEN [text |-> "Total|Selected", total |-> Len(m), selected |-> Len(sel)]
  ELSE [text |-> "No_Match_Case", total |-> 0, selected |-> 0]

\* The output row with OverPaid 0, not empty, for a subject without a match.
row_data_zero(b, m, sel) ==
  [Subject |-> columns(b),
   Status |-> status_of(m, sel),
   OverPaid |-> safe_excel_value(IF m # <<>> THEN overpaid_of(b, sel) ELSE Num(0)),
   Result |-> [idx \in 1..MaxSelected |->
                 IF idx <= Len(sel) THEN columns(sel[idx]) ELSE EmptyColumns]]

row_data_of(b, m, sel) ==
  [Subject |-> columns(b),
   Status |-> status_of(m, sel),
   OverPaid |-> safe_excel_value(IF m # <<>> THEN overpaid_of(b, sel) ELSE Text("")),
   Result |-> [idx \in 1..MaxSelected |->
                 IF idx <= Len(sel) THEN columns(sel[idx]) ELSE EmptyColumns]]

----------------------------------------------------------------------------
(* Input tables *)

MaxRows == 3

MaxClassRows == 2

MaxLongRows == 7

Row(address, state, county, name, owner, rooms, mv, vpr, class) ==
  [Address |-> address, State |-> state, County |-> county, HotelName |-> name,
   OwnerName |-> owner, Rooms |-> rooms, MarketValue |-> mv, VPR |-> vpr,
   HotelClass |-> class]

Street == <<"1 Main St", "2 Main St", "3 Main St", "4 Main St", "5 Main St",
            "6 Main St", "7 Main St", "8 Main St", "9 Main St">>

\* The tables of 1..n rows drawn from rows.
TablesOf(rows, n) == UNION {[1..k -> rows] : k \in 1..n}

\* The same, every row given the address of its position, so that no two
\* rows of a table are the same property.
Readdress(t) == [k \in 1..Len(t) |-> [t[k] EXCEPT !.Address = Text(Street[k])]]

DistinctTablesOf(rows, n) == {Readdress(t) : t \in TablesOf(rows, n)}

\* A smaller and a larger property: (rooms, VPR) is (1, 1) or (2, 2).
Sizes == {1, 2}

\* Rows that differ in state and county.
GeoRows ==
  {Row(Text("-"), Text(st), Text(co), Text("Inn"), Text("Acme LLC"),
       Num(sz), Num(5), Num(sz), Text("Midscale")) :
     st \in {"Texas", "Atlantis"}, co \in {"Harris", "Travis"}, sz \in Sizes}

\* Rows that differ in rooms and VPR, each possibly not a number.
SizeRows ==
  {Row(Text("-"), Text("Texas"), Text("Harris"), Text("Inn"), Text("Acme LLC"),
       rm, Num(5), vp, Text("Midscale")) :
     rm \in {Text("n/a"), Num(1), Num(2)}, vp \in {NaN, Num(1), Num(2)}}

\* Rows that differ in market value: larger properties of value 4 or 5, and
\* smaller ones around the band [4, 6] of the value 5.
ValueRows ==
  {Row(Text("-"), Text("Texas"), Text("Harris"), Text("Inn"), Text("Acme LLC"),
       Num(2), mv, Num(2), Text("Midscale")) :
     mv \in {Text("5"), Num(4), Num(5)}}
  \cup
  {Row(Text("-"), Text("Texas"), Text("Harris"), Text("Inn"), Text("Acme LLC"),
       Num(1), mv, Num(1), Text("Midscale")) :
     mv \in {Text("n/a"), Num(3), Num(4), Num(5), Num(6), Num(7)}}

\* Rows that differ in hotel class: the eight mapped labels, a padded one,
\* a lower-case one, an unknown one and an empty cell.
ClassCells ==
  {Text(s) : s \in DOMAIN hotel_class_map}
    \cup {Padded("Midscale"), Text("midscale"), Text("Resort"), NaN}

ClassRows ==
  {Row(Text("-"), Text("Texas"), Text("Harris"), Text("Inn"), Text("Acme LLC"),
       Num(sz), Num(5), Num(sz), cl) :
     sz \in Sizes, cl \in ClassCells}

\* Rows that differ in hotel name, address and owner.
IdentityRows ==
  {Row(Text("1 Main St"), Text("Ohio"), Text("Franklin"), Text(nm), Text("Acme LLC"),
       Num(2), Num(5), Num(2), Text("Upscale")) :
     nm \in {"Inn", "Lodge"}}
  \cup
  {Row(Text(ad), Text("Ohio"), Text("Franklin"), Text(nm), Text(ow),
       Num(1), Num(5), Num(1), Text("Upscale")) :
     ad \in {"1 Main St", "2 Main St"}, nm \in {"Inn", "Lodge"},
     ow \in {"Acme LLC", "Apex LLC"}}

\* A subject: rooms 2, value 5, VPR 3.
SubjectRow ==
  Row(Text("-"), Text("Texas"), Text("Harris"), Text("Inn"), Text("Acme LLC"),
      Num(2), Num(5), Num(3), Text("Midscale"))

\* Long tables: the subject, with a high VPR, may come first or last; the
\* other rows are candidates of value 5 with the position as VPR, or of
\* value 4 with the position plus one as VPR, so that many candidates
\* qualify and only neighbours tie.
LongRow(p, c) ==
  IF c = 0 THEN [SubjectRow EXCEPT !.VPR = Num(MaxLongRows + 2)]
  ELSE Row(Text("-"), Text("Texas"), Text("Harris"), Text("Inn"), Text("Acme LLC"),
           Num(1), Num(6 - c), Num(p + c - 1), Text("Midscale"))

LongTables ==
  UNION {{Readdress([p \in 1..n |-> LongRow(p, c[p])]) :
            c \in {d \in [1..n -> {0, 1, 2}] : \A p \in 2..(n - 1) : d[p] # 0}} :
         n \in 1..MaxLongRows}

Tables ==
  DistinctTablesOf(GeoRows, MaxRows) \cup DistinctTablesOf(SizeRows, MaxRows)
    \cup DistinctTablesOf(ValueRows, MaxRows) \cup DistinctTablesOf(ClassRows, MaxClassRows)
    \cup TablesOf(IdentityRows, MaxRows)
    \cup LongTables

----------------------------------------------------------------------------
(* The script *)

Init ==
  /\ uploaded_file \in Tables
  /\ pc = "uploaded"
  /\ df = <<>>
  /\ i = 0
  /\ base = <<>>
  /\ subset = <<>>
  /\ matches = <<>>
  /\ selected = <<>>
  /\ df_out_rows = <<>>

\* Lines 66-81: read, coerce, drop, map.  astype(int) raises on an unmapped
\* class and the script run ends there.
Upload ==
  /\ pc = "uploaded"
  /\ IF astype_int_fails(normalized(uploaded_file))
       THEN pc' = "ValueError" /\ df' = <<>>
       ELSE pc' = "ready" /\ df' = normalized(uploaded_file)
  /\ UNCHANGED <<uploaded_file, i, base, subset, matches, selected, df_out_rows>>

\* Line 83: the Process File button.
ProcessFile ==
  /\ pc = "ready"
  /\ pc' = "loop"
  /\ i' = 0
  /\ df_out_rows' = <<>>
  /\ UNCHANGED <<uploaded_file, df, base, subset, matches, selected>>

\* Lines 94-170: one iteration of the loop, for the subject at position i.
CompareRow ==
  /\ pc = "loop"
  /\ i < Len(df)
  /\ base' = df[i + 1]
  /\ subset' = subset_of(df, i)
  /\ matches' = matches_of(subset', base')
  /\ selected' \in selections(matches')
  /\ df_out_rows' = Append(df_out_rows, row_data_of(base', matches', selected'))
  /\ i' = i + 1
  /\ UNCHANGED <<uploaded_file, df, pc>>

\* Lines 172-187: the output frame is written and offered for download.
Download ==
  /\ pc = "loop"
  /\ i = Len(df)
  /\ pc' = "done"
  /\ UNCHANGED <<uploaded_file, df, i, base, subset, matches, selected, df_out_rows>>

Next == Upload \/ ProcessFile \/ CompareRow \/ Download

Spec == Init /\ [][Next]_vars

----------------------------------------------------------------------------
(* Properties *)

\* An iteration of the loop has run: base, subset, matches and selected are
\* those of the subject of the last output row.
Ran == pc \in {"loop", "done"} /\ i > 0

Rows(frame) == {frame[k] : k \in 1..Len(frame)}

Matched(c) == c.index \in index(matches)

Rank(r) == r.HotelClassMapped.val

\* The eligibility conditions other than the one on market value.
EligibleButValue(c) ==
  /\ c.State = base.State /\ c.County = base.County
  /\ c.Rooms.val < base.Rooms.val /\ c.VPR.val < base.VPR.val
  /\ Rank(c) \in allowed(Rank(base))

\* The eligibility conditions other than the one on hotel class.
EligibleButClass(c) ==
  /\ c.State = base.State /\ c.County = base.County
  /\ c.Rooms.val < base.Rooms.val /\ c.VPR.val < base.VPR.val
  /\ 5 * c.MarketValue.val >= 4 * base.MarketValue.val
  /\ 5 * c.MarketValue.val <= 6 * base.MarketValue.val

\* C1: every record of a subject's comparable set has the subject's state and
\* county, strictly fewer rooms and a strictly lower VPR; a candidate with
\* equal rooms or equal VPR is never selected.
C1_StrictSameMarket ==
  Ran => \A c \in Rows(selected) :
           /\ c.State = base.State
           /\ c.County = base.County
           /\ c.Rooms.val < base.Rooms.val
           /\ c.VPR.val < base.VPR.val

\* A comparable was selected while the pool held a row of the same state and
\* county with the subject's room count and a lower VPR.
C1_Witness ==
  /\ Ran /\ selected # <<>>
  /\ \E c \in Rows(subset) :
       /\ c.index # base.index
       /\ c.State = base.State /\ c.County = base.County
       /\ c.Rooms.val = base.Rooms.val /\ c.VPR.val < base.VPR.val

\* C2: every selected comparable's market value lies in [0.8*mv, 1.2*mv]; a
\* candidate meeting the other conditions is eligible at exactly 0.8*mv and at
\* exactly 1.2*mv, and not eligible one unit below or above.
C2_ToleranceBand ==
  Ran =>
    /\ \A c \in Rows(selected) :
         /\ 5 * c.MarketValue.val >= 4 * base.MarketValue.val
         /\ 5 * c.MarketValue.val <= 6 * base.MarketValue.val
    /\ \A c \in Rows(subset) :
         EligibleButValue(c) =>
           /\ 5 * c.MarketValue.val = 4 * base.MarketValue.val => Matched(c)
           /\ 5 * c.MarketValue.val = 6 * base.MarketValue.val => Matched(c)
           /\ 5 * (c.MarketValue.val + 1) = 4 * base.MarketValue.val => ~Matched(c)
           /\ 5 * (c.MarketValue.val - 1) = 6 * base.MarketValue.val => ~Matched(c)

\* A candidate at exactly 0.8*mv was selected and one a unit above 1.2*mv,
\* fine in every other respect, was passed over.
C2_Witness ==
  /\ Ran
  /\ \E c \in Rows(selected) : 5 * c.MarketValue.val = 4 * base.MarketValue.val
  /\ \E c \in Rows(subset) :
       /\ EligibleButValue(c) /\ ~Matched(c)
       /\ 5 * (c.MarketValue.val - 1) = 6 * base.MarketValue.val

ClaimedRanks(r) ==
  IF r = 1 THEN {1, 2, 3}
  ELSE IF r = 8 THEN {7, 8}
  ELSE {r - 1, r, r + 1}

\* C3, as claimed: the ranks admitted for a subject of rank r are exactly
\* {r-1, r, r+1} within 1..8, except {1,2,3} for rank 1 and {7,8} for rank 8.
C3_OneStepBand ==
  Ran => \A c \in Rows(subset) :
           EligibleButClass(c) => (Matched(c) <=> Rank(c) \in ClaimedRanks(Rank(base)))

\* C3, amended: the ranks admitted for a subject of rank r are exactly
\* {r-1, r, r+1, r+2} within 1..8, and no selected comparable is two or more
\* ranks below or three or more ranks above its subject.
C3_OneBelowTwoAbove ==
  Ran =>
    /\ \A c \in Rows(subset) :
         EligibleButClass(c) =>
           (Matched(c) <=> Rank(c) \in {Rank(base) + d : d \in -1..2} \cap 1..8)
    /\ \A c \in Rows(selected) :
         Rank(c) - Rank(base) > -2 /\ Rank(c) - Rank(base) < 3

\* A subject of rank 4 got a comparable of rank 6.
C3_Witness ==
  /\ Ran /\ Rank(base) = 4
  /\ \E c \in Rows(selected) : Rank(c) = 6

Identity(r) == <<r.HotelName, r.Address, r.OwnerName>>

\* C4: no two records of a comparable set share (hotelName, address,
\* ownerName), and the reported total counts such duplicates once.
C4_DuplicatesCollapsed ==
  Ran =>
    /\ \A a, b \in 1..Len(selected) :
         a # b => Identity(selected[a]) # Identity(selected[b])
    /\ matches # <<>> =>
         df_out_rows[Len(df_out_rows)].Status.total
           = Cardinality({Identity(c) : c \in Rows(matches)})

\* C5: the pool of every subject is the whole normalised table but the
\* subject itself.
C5_PoolIsTableMinusSubject ==
  Ran => index(subset) = index(df) \ {base.index}

KnownClass(row) ==
  row.HotelClass.kind = "text" /\ row.HotelClass.text \in DOMAIN hotel_class_map

\* C6: a row whose class is none of the eight labels is dropped, and the run
\* goes on with the other rows: it is never aborted.
C6_UnmappedRowsDropped ==
  pc # "uploaded" =>
    /\ pc # "ValueError"
    /\ index(df) = {k - 1 : k \in {j \in 1..Len(uploaded_file) :
                                 /\ KnownClass(uploaded_file[j])
                                 /\ ~isna(to_numeric(uploaded_file[j].Rooms))
                                 /\ ~isna(to_numeric(uploaded_file[j].MarketValue))
                                 /\ ~isna(to_numeric(uploaded_file[j].VPR))}}

\* The squared distance of a match to the subject in (marketValue, vpr).
Distance2(c) ==
  (c.MarketValue.val - base.MarketValue.val) * (c.MarketValue.val - base.MarketValue.val)
    + (c.VPR.val - base.VPR.val) * (c.VPR.val - base.VPR.val)

Closer(a, b) ==
  \/ Distance2(matches[a]) < Distance2(matches[b])
  \/ Distance2(matches[a]) = Distance2(matches[b]) /\ a < b

EuclideanNearest ==
  {matches[k].index : k \in {j \in 1..Len(matches) :
      Cardinality({a \in 1..Len(matches) : Closer(a, j)}) < 3}}

\* C7: the first group of a non-empty comparable set is the three eligible
\* candidates closest to the subject in (marketValue, vpr), ties by pool
\* order, or all of them when there are fewer than three.
C7_NearestByDistance ==
  Ran /\ matches # <<>> => index(head(selected, 3)) = EuclideanNearest

\* The k-th smallest of the values v, by counting.
KthSmallest(v, k) ==
  CHOOSE x \in Range(v) :
    /\ Cardinality({j \in DOMAIN v : v[j] < x}) < k
    /\ Cardinality({j \in DOMAIN v : v[j] <= x}) >= k

StatMedian2(v) ==
  KthSmallest(v, (Len(v) + 1) \div 2) + KthSmallest(v, Len(v) \div 2 + 1)

StateRate(cell) ==
  IF cell.text \in DOMAIN state_tax_rates THEN state_tax_rates[cell.text] ELSE 0

TopThreeVPRs(r) == [k \in 1..Min(3, r.Status.selected) |-> r.Result[k].VPR.val]

\* C8: OverPaid = mv * rate - medianVpr * rooms * rate, medianVpr the median
\* of the VPRs of the first at most three comparables, rate the subject's
\* state rate or 0; signed.  In units of 1/(2*RateScale); the last line is
\* the worked example (1,000,000; 100 rooms; rate 0.01; VPRs 5000, 6000, 7000).
C8_OverPaidFormula ==
  /\ \A n \in 1..Len(df_out_rows) :
       LET r == df_out_rows[n] IN
       r.Status.text # "No_Match_Case" =>
         r.OverPaid = Num(2 * r.Subject.MarketValue.val * StateRate(r.Subject.State)
                            - StatMedian2(TopThreeVPRs(r)) * r.Subject.Rooms.val
                                * StateRate(r.Subject.State))
  /\ overpaid_amount(1000000, 100, 100, <<5000, 6000, 7000>>) = 4000 * 2 * RateScale

\* A subject with three or more comparables, the first three of differing
\* VPR, came out with a negative amount.
C8_Witness ==
  \E n \in 1..Len(df_out_rows) :
    LET r == df_out_rows[n] IN
    /\ r.Status.selected >= 3
    /\ r.Result[1].VPR # r.Result[3].VPR
    /\ r.OverPaid.val < 0

\* C9: a comparable set never has more than five records, nor more than the
\* subject has eligible candidates, duplicates counted once.
C9_CapAndEligibleCount ==
  Ran =>
    /\ Len(selected) <= 5
    /\ Len(selected) <= Cardinality({Identity(c) : c \in Rows(matches)})

\* C10: OverPaid is present exactly for the matched subjects, those with an
\* eligible candidate; the others have the status No_Match_Case, an empty
\* OverPaid and five empty Result groups.
C10_OverPaidIffMatched ==
  /\ \A n \in 1..Len(df_out_rows) :
       LET r == df_out_rows[n] IN
       /\ r.OverPaid.kind = "num" <=> r.Status.text # "No_Match_Case"
       /\ r.Status.text = "No_Match_Case" =>
            /\ r.OverPaid = Text("")
            /\ \A idx \in 1..5 : r.Result[idx] = EmptyColumns
  /\ Ran =>
       (df_out_rows[Len(df_out_rows)].Status.text = "No_Match_Case"
          <=> ~\E c \in Rows(subset) : mask(c, base))

\* The output holds a matched subject and one without a match.
C10_Witness ==
  /\ \E n \in 1..Len(df_out_rows) : df_out_rows[n].Status.text = "No_Match_Case"
  /\ \E n \in 1..Len(df_out_rows) : df_out_rows[n].OverPaid.kind = "num"

====
